---- MODULE Spec2Model ----
(***************************************************************************)
(* Model of the merge evaluation engine of the spork benchmark scripts:    *)
(*   scripts/benchmark/evaluate.py   conflict parsing, diff metrics,        *)
(*                                   evaluation_result                      *)
(*   scripts/benchmark/javautils.py  classfile staging and comparison       *)
(*   scripts/benchmark/command.py    run_merge_and_compare                  *)
(*                                                                         *)
(* Text is modelled at the level of characters: a line is a sequence of    *)
(* one-character strings, a file is a sequence of lines, the output of an  *)
(* external tool is a sequence of characters.  External tools are inputs   *)
(* of the actions: their exit status, output and failure to run are drawn  *)
(* from small sets.                                                        *)
(***************************************************************************)
EXTENDS Integers, Sequences, FiniteSets, TLC

VARIABLES
    pc,               \* the operation performed last ("init" before any)
    lines,            \* evaluate.extract_conflicts: the lines read from the file
    conflicts,        \* evaluate.extract_conflicts: the list returned
    call,             \* arguments and environment of the last call
    ret,              \* what the last call returned ([kind |-> "none"] if it raised)
    exc,              \* the exception the last call raised ("none" if it returned)
    trace,            \* external tools invoked by the last call, in order
    log,              \* log records emitted by the last call, in order
    fs,               \* the on-disk staging tree: the <<path, content>> of its files
    old_evaluations,  \* command.run_merge_and_compare: the reference set
    new_evaluations,  \* command.run_merge_and_compare: the candidate set
    exit_status,      \* command.run_merge_and_compare: status of sys.exit
    ncalls            \* javautils: the calls made so far on the staging tree

vars == <<pc, lines, conflicts, call, ret, exc, trace, log, fs,
          old_evaluations, new_evaluations, exit_status, ncalls>>

(***************************************************************************)
(* Bounds of the model.                                                    *)
(***************************************************************************)
MaxLines == 7

(***************************************************************************)
(* Text helpers.                                                           *)
(***************************************************************************)
NoValue == [kind |-> "none"]

\* str.startswith(prefix)
startswith(s, prefix) ==
    /\ Len(s) >= Len(prefix)
    /\ SubSeq(s, 1, Len(prefix)) = prefix

\* the characters str.strip() and str.rstrip() remove
Whitespace == {" ", "\n", "\t", "\r"}

RECURSIVE rstrip(_)
\* str.rstrip()
rstrip(s) ==
    IF s # <<>> /\ s[Len(s)] \in Whitespace
    THEN rstrip(SubSeq(s, 1, Len(s) - 1))
    ELSE s

RECURSIVE lstrip(_)
\* str.lstrip()
lstrip(s) == IF s # <<>> /\ Head(s) \in Whitespace THEN lstrip(Tail(s)) ELSE s

\* str.strip()
strip(s) == lstrip(rstrip(s))

RECURSIVE split(_, _)
\* str.split(sep) for a one-character sep: always at least one piece
split(s, sep) ==
    IF \A i \in 1..Len(s) : s[i] # sep THEN <<s>>
    ELSE LET i == CHOOSE k \in 1..Len(s) :
                      s[k] = sep /\ \A j \in 1..(k - 1) : s[j] # sep
         IN  <<SubSeq(s, 1, i - 1)>> \o split(SubSeq(s, i + 1, Len(s)), sep)

RECURSIVE Unlines(_)
\* the text made of the given lines, each ended by a newline
Unlines(ls) ==
    IF ls = <<>> THEN <<>> ELSE Head(ls) \o <<"\n">> \o Unlines(Tail(ls))

RECURSIVE MapNumLines(_)
RECURSIVE SumSeq(_)
\* sum(...) over a sequence of integers
SumSeq(s) == IF s = <<>> THEN 0 ELSE Head(s) + SumSeq(Tail(s))

(***************************************************************************)
(* evaluate.py: the conflict markers and the conflict parser.              *)
(***************************************************************************)
START_CONFLICT == <<"<", "<", "<", "<", "<", "<", "<">>
MID_CONFLICT == <<"=", "=", "=", "=", "=", "=", "=">>
END_CONFLICT == <<">", ">", ">", ">", ">", ">", ">">>

\* MergeConflict(left, right)
MergeConflict(left, right) == [left |-> left, right |-> right]

\* MergeConflict.num_lines collecting only the left side
num_lines_left_only(c) == Len(c.left)

\* MergeConflict.num_lines
num_lines(c) == Len(c.left) + Len(c.right)

\* [c.num_lines for c in conflicts]
MapNumLines(cs) ==
    IF cs = <<>> THEN <<>> ELSE <<num_lines(Head(cs))>> \o MapNumLines(Tail(cs))

RECURSIVE takewhile_keeps_marker(_, _, _, _)
\* takewhile leaving the line that ends it on the iterator
takewhile_keeps_marker(ls, i, marker, acc) ==
    IF i > Len(ls) THEN [taken |-> acc, next |-> i]
    ELSE IF startswith(ls[i], marker) THEN [taken |-> acc, next |-> i]
    ELSE takewhile_keeps_marker(ls, i + 1, marker, Append(acc, ls[i]))

RECURSIVE takewhile(_, _, _, _)
\* list(itertools.takewhile(lambda line: not line.startswith(marker), lines))
\* on the shared iterator, which stands before ls[i]: the lines taken, and the
\* position of the iterator afterwards.  takewhile consumes the first line
\* that fails the predicate and drops it.
takewhile(ls, i, marker, acc) ==
    IF i > Len(ls) THEN [taken |-> acc, next |-> i]
    ELSE IF startswith(ls[i], marker) THEN [taken |-> acc, next |-> i + 1]
    ELSE takewhile(ls, i + 1, marker, Append(acc, ls[i]))

\* _extract_conflict() filing what follows a start marker with no mid marker
\* under the right side
_extract_conflict_right_heavy(ls, i) ==
    LET l == takewhile(ls, i, MID_CONFLICT, <<>>)
        r == takewhile(ls, l.next, END_CONFLICT, <<>>)
    IN  IF \E j \in i..Len(ls) : startswith(ls[j], MID_CONFLICT)
        THEN [conflict |-> MergeConflict(l.taken, r.taken), next |-> r.next]
        ELSE [conflict |-> MergeConflict(<<>>, l.taken), next |-> r.next]

\* _extract_conflict(), called with the iterator standing before ls[i]
_extract_conflict(ls, i) ==
    LET l == takewhile(ls, i, MID_CONFLICT, <<>>)
        r == takewhile(ls, l.next, END_CONFLICT, <<>>)
    IN  [conflict |-> MergeConflict(l.taken, r.taken), next |-> r.next]

RECURSIVE scan_lines_rescanning(_, _, _)
\* the `while True` loop looking for the next start marker right after the
\* one it found, inside the region
scan_lines_rescanning(ls, i, acc) ==
    IF i > Len(ls) THEN acc
    ELSE IF startswith(ls[i], START_CONFLICT)
         THEN LET e == _extract_conflict(ls, i + 1)
              IN  scan_lines_rescanning(ls, i + 1, Append(acc, e.conflict))
         ELSE scan_lines_rescanning(ls, i + 1, acc)

RECURSIVE scan_lines(_, _, _)
\* the `while True` loop of extract_conflicts: next(lines) until StopIteration
scan_lines(ls, i, acc) ==
    IF i > Len(ls) THEN acc
    ELSE IF startswith(ls[i], START_CONFLICT)
         THEN LET e == _extract_conflict(ls, i + 1)
              IN  scan_lines(ls, e.next, Append(acc, e.conflict))
         ELSE scan_lines(ls, i + 1, acc)

\* extract_conflicts(path), for a file whose readlines() is ls
extract_conflicts(ls) == scan_lines(ls, 1, <<>>)

(***************************************************************************)
(* The lines a merged file is made of.  readlines() keeps the terminator.  *)
(***************************************************************************)
StartLine == START_CONFLICT \o <<" ", "H", "\n">>
MidLine == MID_CONFLICT \o <<"\n">>
EndLine == END_CONFLICT \o <<" ", "b", "\n">>
TextA == <<"a", "\n">>
\* six "<": one short of a start marker
ShortStart == SubSeq(START_CONFLICT, 1, Len(START_CONFLICT) - 1) \o <<"\n">>

LineVocab == {StartLine, MidLine, EndLine, TextA, ShortStart}

Files == UNION {[1..n -> LineVocab] : n \in 0..MaxLines}

(***************************************************************************)
(* Specification of the conflict parser: a file is drawn, then parsed.     *)
(***************************************************************************)
Idle ==
    /\ call = NoValue
    /\ ret = NoValue
    /\ exc = "none"
    /\ trace = <<>>
    /\ log = <<>>
    /\ fs = {}
    /\ old_evaluations = {}
    /\ new_evaluations = {}
    /\ exit_status = -1
    /\ ncalls = 0

InitParse ==
    /\ pc = "init"
    /\ lines \in Files
    /\ conflicts = <<>>
    /\ Idle

ExtractConflicts ==
    /\ pc = "init"
    /\ conflicts' = extract_conflicts(lines)
    /\ pc' = "extract_conflicts"
    /\ UNCHANGED <<lines, call, ret, exc, trace, log, fs,
                   old_evaluations, new_evaluations, exit_status, ncalls>>

NextParse == ExtractConflicts

SpecParse == InitParse /\ [][NextParse]_vars

(***************************************************************************)
(* Well-formed conflict-marked text, stated on the text alone: outside a   *)
(* region no line is a mid or end marker; a region is a start-marker line, *)
(* lines that are no markers, a mid-marker line, lines that are no         *)
(* markers, and an end-marker line.                                        *)
(***************************************************************************)
IsStart(l) == startswith(l, START_CONFLICT)
IsMid(l) == startswith(l, MID_CONFLICT)
IsEnd(l) == startswith(l, END_CONFLICT)
IsMarker(l) == IsStart(l) \/ IsMid(l) \/ IsEnd(l)

RECURSIVE WellFormedFrom(_, _, _)
WellFormedFrom(ls, i, where) ==
    IF i > Len(ls) THEN where = "text"
    ELSE CASE where = "text" ->
                 IF IsStart(ls[i]) THEN WellFormedFrom(ls, i + 1, "left")
                 ELSE ~IsMarker(ls[i]) /\ WellFormedFrom(ls, i + 1, "text")
           [] where = "left" ->
                 IF IsMid(ls[i]) THEN WellFormedFrom(ls, i + 1, "right")
                 ELSE ~IsMarker(ls[i]) /\ WellFormedFrom(ls, i + 1, "left")
           [] where = "right" ->
                 IF IsEnd(ls[i]) THEN WellFormedFrom(ls, i + 1, "text")
                 ELSE ~IsMarker(ls[i]) /\ WellFormedFrom(ls, i + 1, "right")

WellFormed(ls) == WellFormedFrom(ls, 1, "text")

\* positions of the start-marker lines, and the k-th of them
StartPositions(ls) == {i \in 1..Len(ls) : IsStart(ls[i])}
NthStart(ls, k) ==
    CHOOSE i \in StartPositions(ls) :
        Cardinality({j \in StartPositions(ls) : j < i}) = k - 1
\* the first mid-marker line after position i, the first end-marker line after it
MidAfter(ls, i) ==
    CHOOSE m \in (i + 1)..Len(ls) :
        IsMid(ls[m]) /\ \A j \in (i + 1)..(m - 1) : ~IsMid(ls[j])
EndAfter(ls, i) ==
    CHOOSE e \in (i + 1)..Len(ls) :
        IsEnd(ls[e]) /\ \A j \in (i + 1)..(e - 1) : ~IsEnd(ls[j])
\* the k-th region of a well-formed text, as the conflict it denotes
RegionConflict(ls, k) ==
    LET s == NthStart(ls, k)
        m == MidAfter(ls, s)
        e == EndAfter(ls, m)
    IN  MergeConflict(SubSeq(ls, s + 1, m - 1), SubSeq(ls, m + 1, e - 1))

Parsed == pc = "extract_conflicts"

NextAt(ls, i, marker) ==
    IF \E j \in i..Len(ls) : startswith(ls[j], marker)
    THEN CHOOSE j \in i..Len(ls) :
             /\ startswith(ls[j], marker)
             /\ \A h \in i..(j - 1) : ~startswith(ls[h], marker)
    ELSE Len(ls) + 1

\* of the region opened at start marker s: its mid marker and its end marker
MidOf(ls, s) == NextAt(ls, s + 1, MID_CONFLICT)
EndOf(ls, s) == NextAt(ls, MidOf(ls, s) + 1, END_CONFLICT)

RECURSIVE OpenedAt(_, _)
\* the start marker that opens the k-th conflict: the first start marker of
\* the text, then the first one after the end marker of the conflict before
OpenedAt(ls, k) ==
    IF k = 1 THEN NextAt(ls, 1, START_CONFLICT)
    ELSE NextAt(ls, EndOf(ls, OpenedAt(ls, k - 1)) + 1, START_CONFLICT)

\* C13: for every line sequence, well-formed or not, the k-th conflict
\* returned by extract_conflicts is opened by the first start marker after
\* the end marker consumed by the conflict before it; its left is exactly the
\* lines after that start marker up to but excluding the very next line that
\* starts with the mid marker, its right exactly the lines after that mid
\* marker up to but excluding the very next line that starts with the end
\* marker.  Hence no left line starts with the mid marker, no right line
\* with the end marker, and a start marker inside a region opens no conflict.
C13_GreedyRegions ==
    Parsed =>
        /\ OpenedAt(lines, Len(conflicts) + 1) > Len(lines)
        /\ \A k \in 1..Len(conflicts) :
              LET s == OpenedAt(lines, k)
                  m == MidOf(lines, s)
                  e == EndOf(lines, s)
              IN  /\ s <= Len(lines)
                  /\ conflicts[k].left = SubSeq(lines, s + 1, m - 1)
                  /\ conflicts[k].right = SubSeq(lines, m + 1, e - 1)
                  /\ \A j \in 1..Len(conflicts[k].left) :
                         ~IsMid(conflicts[k].left[j])
                  /\ \A j \in 1..Len(conflicts[k].right) :
                         ~IsEnd(conflicts[k].right[j])

\* C13 witness: a malformed text was parsed into two conflicts, the first
\* holding a stray start marker in its left side and a stray mid marker in
\* its right side, the second opened after the end marker of the first.
C13_Witness ==
    /\ Parsed
    /\ ~WellFormed(lines)
    /\ Len(conflicts) = 2
    /\ \E j \in 1..Len(conflicts[1].left) : IsStart(conflicts[1].left[j])
    /\ \E j \in 1..Len(conflicts[1].right) : IsMid(conflicts[1].right[j])
    /\ OpenedAt(lines, 2) > EndOf(lines, OpenedAt(lines, 1))

\* the last conflict of the text has no mid marker, or no end marker, before
\* the end of the text
MidMissing(ls, s) == MidOf(ls, s) > Len(ls)
EndMissing(ls, s) == MidOf(ls, s) <= Len(ls) /\ EndOf(ls, s) > Len(ls)

\* C14: when a start marker is followed by no mid marker or by no end marker
\* before the end of the text, extract_conflicts returns (it does not raise)
\* with a final conflict that absorbs all the remaining lines: into left,
\* right being empty, when the mid marker is missing; into right when only
\* the end marker is missing.  The conflicts before it are those of the text
\* before that start marker.
C14_UnterminatedAbsorbs ==
    (Parsed /\ OpenedAt(lines, 1) <= Len(lines)) =>
        LET n == Len(conflicts)
            s == OpenedAt(lines, n)
        IN  /\ n >= 1
            /\ exc = "none"
            /\ MidMissing(lines, s) =>
                   /\ conflicts[n].left = SubSeq(lines, s + 1, Len(lines))
                   /\ conflicts[n].right = <<>>
            /\ EndMissing(lines, s) =>
                   /\ conflicts[n].left = SubSeq(lines, s + 1, MidOf(lines, s) - 1)
                   /\ conflicts[n].right =
                          SubSeq(lines, MidOf(lines, s) + 1, Len(lines))
            /\ (MidMissing(lines, s) \/ EndMissing(lines, s)) =>
                   SubSeq(conflicts, 1, n - 1) =
                       extract_conflicts(SubSeq(lines, 1, s - 1))

\* C14 witness: a text with a complete conflict followed by a start marker
\* with no mid marker was parsed: the second conflict holds the remaining
\* lines as left and nothing as right.
C14_Witness ==
    /\ Parsed
    /\ Len(conflicts) = 2
    /\ EndOf(lines, OpenedAt(lines, 1)) <= Len(lines)
    /\ MidMissing(lines, OpenedAt(lines, 2))
    /\ Len(conflicts[2].left) >= 2
    /\ conflicts[2].right = <<>>
    /\ conflicts[1].left # <<>>

(***************************************************************************)
(* evaluate.py: the diff metrics.  A finished subprocess is a record       *)
(* [returncode, stdout]; stdout is the decoded text.                       *)
(***************************************************************************)
Proc(returncode, stdout) == [returncode |-> returncode, stdout |-> stdout]

Returned(v) == [exc |-> "none", value |-> v]
Raised(e) == [exc |-> e, value |-> <<>>]

\* gumtree_edit_script that swallows a failure of the tool
gumtree_edit_script_swallow(proc) ==
    IF proc.returncode # 0
    THEN Returned(<<>>)
    ELSE Returned(SelectSeq(split(proc.stdout, "\n"),
                            LAMBDA line : /\ ~startswith(line, <<"M", "a", "t", "c", "h">>)
                                          /\ strip(line) # <<>>))

\* gumtree_edit_script(base_file, dest_file), proc being what
\* subprocess.run(["gumtree", "diff", ...]) returned
gumtree_edit_script(proc) ==
    IF proc.returncode # 0
    THEN Raised("RuntimeError")
    ELSE Returned(SelectSeq(split(proc.stdout, "\n"),
                            LAMBDA line : /\ ~startswith(line, <<"M", "a", "t", "c", "h">>)
                                          /\ strip(line) # <<>>))

\* lines[4:]
DropFour(ls) == SubSeq(ls, 5, Len(ls))

\* git_diff_edit_script(base_file, dest_file, strip_metadata), proc being what
\* subprocess.run([*git_diff, ...]) returned
git_diff_edit_script(proc, strip_metadata) ==
    IF proc.returncode = 0
    THEN <<>>
    ELSE LET ls == split(rstrip(proc.stdout), "\n")
         IN  IF strip_metadata /\ ls # <<>>
             THEN SelectSeq(DropFour(ls),
                            LAMBDA line : ~startswith(line, <<"@", "@">>))
             ELSE ls

(***************************************************************************)
(* evaluate.py: evaluation_result.  mr is the MergeResult together with    *)
(* what its environment answers: the lines of the replayed file and the    *)
(* finished subprocess of each diff tool invocation.  The local variables  *)
(* of the function are a record whose domain is the set of bound names.    *)
(***************************************************************************)
NotComputed == -1

MergeOutcome == {"SUCCESS", "FAILURE", "ABORTED"}

\* lines 165-170: the locals bound before the outcome is looked at
InitialLocals ==
    [git_diff_size_norm |-> NotComputed,
     gumtree_diff_size |-> NotComputed,
     git_diff_size |-> NotComputed,
     conflict_size |-> 0,
     num_conflicts |-> 0]

\* conts.MergeEvaluation(...), the identifying and measured columns (the
\* runtime and the commit and blob hashes are passed through unchanged)
MergeEvaluation(mr, locals) ==
    [kind |-> "MergeEvaluation",
     merge_dir |-> mr.merge_dir,
     merge_cmd |-> mr.merge_cmd,
     outcome |-> mr.outcome,
     gumtree_diff_size |-> locals.gumtree_diff_size,
     gumtree_diff_size_norm |-> locals.gumtree_diff_size_norm,
     git_diff_size |-> locals.git_diff_size,
     git_diff_size_norm |-> locals.git_diff_size_norm,
     conflict_size |-> locals.conflict_size,
     num_conflicts |-> locals.num_conflicts]

\* the names evaluation_result reads when it builds the MergeEvaluation
ReadAtReturn ==
    {"gumtree_diff_size", "gumtree_diff_size_norm", "git_diff_size",
     "git_diff_size_norm", "conflict_size", "num_conflicts"}

\* lines 189-207: build the record; reading an unbound local raises
BuildEvaluation(mr, locals, tr) ==
    IF ReadAtReturn \subseteq DOMAIN locals
    THEN [ret |-> MergeEvaluation(mr, locals), exc |-> "none", trace |-> tr]
    ELSE [ret |-> NoValue, exc |-> "UnboundLocalError", trace |-> tr]

\* evaluation_result(merge_result, base_merge_dir)
evaluation_result(mr) ==
    IF mr.outcome # "SUCCESS"
    THEN BuildEvaluation(mr, InitialLocals, <<>>)
    ELSE
      LET cs == extract_conflicts(mr.replayed)
          l1 == [InitialLocals EXCEPT !.conflict_size = SumSeq(MapNumLines(cs)),
                                      !.num_conflicts = Len(cs)]
          t1 == <<"extract_conflicts", "copy_normalized", "copy_normalized">>
          l2 == [l1 EXCEPT !.git_diff_size =
                               Len(git_diff_edit_script(mr.git, FALSE))]
          t2 == Append(t1, "git diff")
          l3 == [l2 EXCEPT !.git_diff_size_norm =
                               Len(git_diff_edit_script(mr.git_norm, FALSE))]
          t3 == Append(t2, "git diff")
          g1 == gumtree_edit_script(mr.gumtree)
          t4 == Append(t3, "gumtree diff")
          l4 == [l3 EXCEPT !.gumtree_diff_size = Len(g1.value)]
          g2 == gumtree_edit_script(mr.gumtree_norm)
          t5 == Append(t4, "gumtree diff")
          l5 == l4 @@ [gumtree_diff_size_norm |-> Len(g2.value)]
      IN  IF g1.exc # "none" THEN [ret |-> NoValue, exc |-> g1.exc, trace |-> t4]
          ELSE IF g2.exc # "none"
               THEN [ret |-> NoValue, exc |-> g2.exc, trace |-> t5]
               ELSE BuildEvaluation(mr, l5, t5)

(***************************************************************************)
(* What the environment of an evaluation can be.                           *)
(***************************************************************************)
\* one conflict with two left lines and one right line, between text
OneConflictFile ==
    <<TextA, StartLine, TextA, ShortStart, MidLine, TextA, EndLine, TextA>>
\* two conflicts, one of them with an empty side
TwoConflictsFile ==
    <<StartLine, TextA, MidLine, EndLine, StartLine, MidLine, TextA, TextA, EndLine>>
CleanFile == <<TextA, TextA>>

EvalFiles == {CleanFile, OneConflictFile, TwoConflictsFile}

\* git diff: no output at all, or a unified diff with its four header
\* lines, a hunk header and two change lines
GitDiffText ==
    Unlines(<< <<"d">>, <<"i">>, <<"-", "-", "-">>, <<"+", "+", "+">>,
               <<"@", "@">>, <<"-", "a">>, <<"+", "b">> >>)
GitOutputs == {<<>>, GitDiffText}
GitReturnCodes == {0, 1, 128}

\* gumtree diff: a Match line, an edit line and a blank line, or nothing
GumtreeText ==
    Unlines(<< <<"M", "a", "t", "c", "h", " ", "x">>, <<"U", "p", "d">>, <<" ">> >>)
GumtreeOutputs == {<<>>, GumtreeText}
GumtreeReturnCodes == {0, 1}

GitProcs == {Proc(rc, out) : rc \in GitReturnCodes, out \in GitOutputs}
GumtreeProcs == {Proc(rc, out) : rc \in GumtreeReturnCodes, out \in GumtreeOutputs}

MergeDirs == {"d1", "d2"}
MergeCommands == {"spork", "jdime"}

MergeResults ==
    [kind : {"MergeResult"},
     merge_dir : {"d1"},
     merge_cmd : {"spork"},
     outcome : MergeOutcome,
     replayed : EvalFiles,
     git : GitProcs,
     git_norm : GitProcs,
     gumtree : GumtreeProcs,
     gumtree_norm : GumtreeProcs]

(***************************************************************************)
(* Specification of the evaluation: evaluation_result or one of the two    *)
(* edit script functions is called on any input.  They keep no state       *)
(* between calls, so one call from the initial state shows all they do.    *)
(***************************************************************************)
InitEval ==
    /\ pc = "init"
    /\ lines = <<>>
    /\ conflicts = <<>>
    /\ Idle

EvaluationResult ==
    \E mr \in MergeResults :
        LET r == evaluation_result(mr)
        IN  /\ pc = "init"
            /\ pc' = "evaluation_result"
            /\ call' = mr
            /\ ret' = r.ret
            /\ exc' = r.exc
            /\ trace' = r.trace
            /\ UNCHANGED <<lines, conflicts, log, fs,
                           old_evaluations, new_evaluations, exit_status, ncalls>>

GitDiffEditScript ==
    \E proc \in GitProcs, strip_metadata \in BOOLEAN :
        /\ pc = "init"
        /\ pc' = "git_diff_edit_script"
        /\ call' = [kind |-> "git_diff_edit_script", proc |-> proc,
                    strip_metadata |-> strip_metadata]
        /\ ret' = [kind |-> "list",
                   value |-> git_diff_edit_script(proc, strip_metadata)]
        /\ exc' = "none"
        /\ trace' = <<"git diff">>
        /\ UNCHANGED <<lines, conflicts, log, fs,
                       old_evaluations, new_evaluations, exit_status, ncalls>>

GumtreeEditScript ==
    \E proc \in GumtreeProcs :
        LET r == gumtree_edit_script(proc)
        IN  /\ pc = "init"
            /\ pc' = "gumtree_edit_script"
            /\ call' = [kind |-> "gumtree_edit_script", proc |-> proc]
            /\ ret' = IF r.exc = "none" THEN [kind |-> "list", value |-> r.value]
                      ELSE NoValue
            /\ exc' = r.exc
            /\ trace' = <<"gumtree diff">>
            /\ UNCHANGED <<lines, conflicts, log, fs,
                           old_evaluations, new_evaluations, exit_status, ncalls>>

NextEval == EvaluationResult \/ GitDiffEditScript \/ GumtreeEditScript

SpecEval == InitEval /\ [][NextEval]_vars

Evaluated == pc = "evaluation_result"

ReturnedEvaluation == exc = "none" /\ ret.kind = "MergeEvaluation"

\* C1: for every MergeResult whose outcome is not SUCCESS, evaluation_result
\* returns a MergeEvaluation whose four diff-size metrics are the sentinel -1
\* and whose conflict_size and num_conflicts are 0, and neither the conflict
\* parser nor any diff tool is invoked.
C1_NonSuccessSentinels ==
    (Evaluated /\ call.outcome # "SUCCESS") =>
        /\ ReturnedEvaluation
        /\ ret.git_diff_size = NotComputed
        /\ ret.git_diff_size_norm = NotComputed
        /\ ret.gumtree_diff_size = NotComputed
        /\ ret.gumtree_diff_size_norm = NotComputed
        /\ ret.conflict_size = 0
        /\ ret.num_conflicts = 0
        /\ trace = <<>>

\* every diff tool invocation of the evaluation exits with a status that
\* reports a result: git diff with 0 or 1, gumtree diff with 0
DiffToolsSucceed(mr) ==
    /\ mr.git.returncode \in {0, 1}
    /\ mr.git_norm.returncode \in {0, 1}
    /\ mr.gumtree.returncode = 0
    /\ mr.gumtree_norm.returncode = 0

\* the conflicting lines of a list of conflicts, counted side by side
ConflictLines(cs) ==
    SumSeq([k \in 1..Len(cs) |-> Len(cs[k].left) + Len(cs[k].right)])

\* C3: for every MergeResult with outcome SUCCESS whose diff tools all
\* succeed, evaluation_result returns a MergeEvaluation whose num_conflicts is
\* the number of conflicts parsed from the merged file, whose conflict_size is
\* the sum over them of len(left) + len(right), and whose four diff-size
\* metrics are non-negative integers.
C3_SuccessMetrics ==
    (Evaluated /\ call.outcome = "SUCCESS" /\ DiffToolsSucceed(call)) =>
        /\ ReturnedEvaluation
        /\ ret.num_conflicts = Len(extract_conflicts(call.replayed))
        /\ ret.conflict_size = ConflictLines(extract_conflicts(call.replayed))
        /\ ret.git_diff_size \in Nat
        /\ ret.git_diff_size_norm \in Nat
        /\ ret.gumtree_diff_size \in Nat
        /\ ret.gumtree_diff_size_norm \in Nat

\* C3 witness: a successful merge whose file holds one conflict with two left
\* lines and one right line was evaluated, every diff tool succeeding and
\* reporting changes: conflict_size 3, num_conflicts 1.
C3_Witness ==
    /\ Evaluated
    /\ call.outcome = "SUCCESS"
    /\ DiffToolsSucceed(call)
    /\ call.replayed = OneConflictFile
    /\ ReturnedEvaluation
    /\ ret.conflict_size = 3
    /\ ret.num_conflicts = 1
    /\ ret.git_diff_size > 0
    /\ ret.gumtree_diff_size_norm > 0

\* C9: a non-zero exit status of the tree diff utility is raised by
\* gumtree_edit_script and propagates out of evaluation_result: no
\* MergeEvaluation is produced for that merge result.
C9_GumtreeFailureRaises ==
    /\ (pc = "gumtree_edit_script" /\ call.proc.returncode # 0) =>
           (exc = "RuntimeError" /\ ret.kind = "none")
    /\ (/\ Evaluated
        /\ call.outcome = "SUCCESS"
        /\ (call.gumtree.returncode # 0 \/ call.gumtree_norm.returncode # 0)) =>
           (exc = "RuntimeError" /\ ret.kind = "none")

\* C9 witness: evaluation_result raised after the tree diff of the raw files
\* had succeeded and the tree diff of the normalized files exited non-zero.
C9_Witness ==
    /\ Evaluated
    /\ call.outcome = "SUCCESS"
    /\ call.gumtree.returncode = 0
    /\ call.gumtree_norm.returncode # 0
    /\ exc = "RuntimeError"
    /\ ret.kind = "none"
    /\ trace[Len(trace)] = "gumtree diff"
    /\ trace[Len(trace) - 1] = "gumtree diff"

\* C10: git_diff_edit_script classifies the exit status of git diff three
\* ways: 0 yields an empty edit script, 1 yields the lines git diff emitted,
\* any other status is an error and is not reported as a diff result: it
\* contributes no edit-script lines to git_diff_size.
C10_ThreeWayStatus ==
    /\ pc = "git_diff_edit_script" =>
          /\ call.proc.returncode = 0 => ret.value = <<>>
          /\ (call.proc.returncode = 1 /\ ~call.strip_metadata) =>
                 ret.value = split(rstrip(call.proc.stdout), "\n")
          /\ call.proc.returncode \notin {0, 1} =>
                 (exc # "none" \/ ret.value = <<>>)
    /\ (Evaluated /\ ReturnedEvaluation) =>
          /\ call.git.returncode \notin {0, 1} => ret.git_diff_size <= 0
          /\ call.git_norm.returncode \notin {0, 1} => ret.git_diff_size_norm <= 0

(***************************************************************************)
(* command.py: run_merge_and_compare.  An evaluation set is the set of its *)
(* records, one per scenario (merge directory and merge command); of a     *)
(* record the comparison reads the outcome and the normalized tree diff    *)
(* size.  analyze.Evaluations.at_least_as_good_as is modelled from the     *)
(* design of the evaluation set comparison.                                *)
(***************************************************************************)
EvaluationRow(dir, cmd, outcome, size) ==
    [merge_dir |-> dir, merge_cmd |-> cmd, outcome |-> outcome,
     gumtree_diff_size_norm |-> size]

\* what a row can measure: a successful merge with a tree diff size, or a
\* merge that did not succeed, its size not computed
Measurements ==
    {<<"SUCCESS", 0>>, <<"SUCCESS", 1>>,
     <<"FAILURE", NotComputed>>, <<"ABORTED", NotComputed>>}

Scenarios == MergeDirs \X MergeCommands

EvaluationSets ==
    UNION {{{EvaluationRow(k[1], k[2], f[k][1], f[k][2]) : k \in K} :
                f \in [K -> Measurements]} : K \in SUBSET Scenarios}

SameScenario(a, b) == a.merge_dir = b.merge_dir /\ a.merge_cmd = b.merge_cmd

\* the governing ordering: a SUCCESS beats a non-SUCCESS whatever the
\* metrics; of two SUCCESS, the larger normalized tree diff size is worse
StrictlyWorse(new, old) ==
    /\ old.outcome = "SUCCESS"
    /\ (new.outcome # "SUCCESS"
        \/ new.gumtree_diff_size_norm > old.gumtree_diff_size_norm)

\* analyze.Evaluations.at_least_as_good_as: a reference record with no
\* candidate record counts as a regression
at_least_as_good_as(new, old) ==
    \A r \in old : \E c \in new : SameScenario(c, r) /\ ~StrictlyWorse(c, r)

\* the exit status of a Python process ended by an uncaught exception
UncaughtExceptionStatus == 1

\* run_merge_and_compare that warns about a regression and exits 0
run_merge_and_compare_exit0(old, data, raises) ==
    IF raises THEN UncaughtExceptionStatus ELSE 0

\* run_merge_and_compare(...): the status the process exits with, old being
\* the evaluations read from `compare`, data what _run_file_merges produced,
\* raises whether a collaborator (reading, merging, evaluating, writing)
\* raised before the comparison
run_merge_and_compare(old, data, raises) ==
    IF raises THEN UncaughtExceptionStatus
    ELSE IF at_least_as_good_as(data, old) THEN 0 ELSE 1

InitCompare ==
    /\ pc = "init"
    /\ lines = <<>>
    /\ conflicts = <<>>
    /\ call = NoValue
    /\ ret = NoValue
    /\ exc = "none"
    /\ trace = <<>>
    /\ log = <<>>
    /\ fs = {}
    /\ old_evaluations \in EvaluationSets
    /\ new_evaluations = {}
    /\ exit_status = -1
    /\ ncalls = 0

RunMergeAndCompare ==
    \E data \in EvaluationSets, raises \in BOOLEAN :
        /\ pc = "init"
        /\ pc' = "run_merge_and_compare"
        /\ new_evaluations' = IF raises THEN {} ELSE data
        /\ exc' = IF raises THEN "Exception" ELSE "SystemExit"
        /\ exit_status' = run_merge_and_compare(old_evaluations, data, raises)
        /\ UNCHANGED <<lines, conflicts, call, ret, trace, log, fs,
                       old_evaluations, ncalls>>

NextCompare == RunMergeAndCompare

SpecCompare == InitCompare /\ [][NextCompare]_vars

Compared == pc = "run_merge_and_compare"

\* the reference scenarios for which the candidate set holds no record
MissingScenarios ==
    {r \in old_evaluations : \A c \in new_evaluations : ~SameScenario(c, r)}

\* the candidate holds for reference record r a record that is a SUCCESS
\* where r is one, with a normalized tree diff size no larger
AsGoodOn(r) ==
    \E c \in new_evaluations :
        /\ SameScenario(c, r)
        /\ r.outcome = "SUCCESS" =>
               /\ c.outcome = "SUCCESS"
               /\ c.gumtree_diff_size_norm <= r.gumtree_diff_size_norm

\* C4: whenever the reference set holds a record whose scenario has no record
\* in the candidate set, run_merge_and_compare exits with status 1; it exits
\* with status 0 only when the candidate is at least as good as the reference
\* on every reference scenario.
C4_MissingScenarioFails ==
    Compared =>
        /\ exit_status \in {0, 1}
        /\ MissingScenarios # {} => exit_status = 1
        /\ exit_status = 0 => \A r \in old_evaluations : AsGoodOn(r)

\* C4 witness: the comparison ran to its end on a candidate that is better
\* on one reference scenario and lacks another, and the process exited 1.
C4_Witness ==
    /\ Compared
    /\ exc = "SystemExit"
    /\ exit_status = 1
    /\ MissingScenarios # {}
    /\ \E r \in old_evaluations : \E c \in new_evaluations :
           /\ SameScenario(c, r)
           /\ r.outcome = "FAILURE"
           /\ c.outcome = "SUCCESS"

(***************************************************************************)
(* javautils.py: extract_java_package, copy_to_pkg_dir, compare_classfiles.*)
(* A path is the sequence of its components.  What an external tool        *)
(* answers is a record: it exited with a status and an output, or running  *)
(* it raised (a timeout, a missing executable), or it was not run.         *)
(***************************************************************************)
MaxCalls == 2

ToolExit(returncode, stdout) ==
    [kind |-> "exit", returncode |-> returncode, stdout |-> stdout]
ToolRaise == [kind |-> "raise"]
NotRun == [kind |-> "not_run"]

BoolValue(b) == [kind |-> "bool", value |-> b]
NoneValue == [kind |-> "None"]
StrValue(str) == [kind |-> "str", value |-> str]

\* extract_java_package with no handler around the subprocess
extract_java_package_unguarded(answer) ==
    IF answer.kind = "raise"
    THEN [exc |-> "TimeoutExpired", value |-> <<>>, log |-> <<>>]
    ELSE IF answer.returncode # 0
         THEN [exc |-> "RuntimeError", value |-> <<>>,
               log |-> << <<"debug", "pkgextractor output">> >>]
         ELSE [exc |-> "none", value |-> strip(answer.stdout), log |-> <<>>]

\* extract_java_package(path), answer being what running pkgextractor did
extract_java_package(answer) ==
    IF answer.kind = "raise"
    THEN [exc |-> "none", value |-> <<>>,
          log |-> << <<"exception", "error running pkgextractor">> >>]
    ELSE IF answer.returncode # 0
         THEN [exc |-> "RuntimeError", value |-> <<>>,
               log |-> << <<"debug", "pkgextractor output">> >>]
         ELSE [exc |-> "none", value |-> strip(answer.stdout), log |-> <<>>]

\* pathlib.Path(*pkg.split(".")): empty components are dropped
pkg_relpath(pkg) == SelectSeq(split(pkg, "."), LAMBDA part : part # <<>>)

\* classfile_dst = basedir / pkg_relpath / classfile.name
classfile_dst(name, pkg, basedir) == basedir \o pkg_relpath(pkg) \o <<name>>

\* classfile_dst.exists()
exists(files, path) == \E f \in files : f[1] = path

\* copy_to_pkg_dir that copies over a file already staged
copy_to_pkg_dir_overwrite(files, name, content, pkg, basedir) ==
    LET dst == classfile_dst(name, pkg, basedir)
    IN  [exc |-> "none", value |-> dst,
         fs |-> {f \in files : f[1] # dst} \cup {<<dst, content>>}]

\* copy_to_pkg_dir(classfile, pkg, basedir) on the staging tree `files`,
\* classfile having the given name and content.  The directories mkdir
\* creates hold no name ending in ".class" and are left out.
copy_to_pkg_dir(files, name, content, pkg, basedir) ==
    LET dst == classfile_dst(name, pkg, basedir)
    IN  IF exists(files, dst)
        THEN [exc |-> "FileExistsError", value |-> dst, fs |-> files]
        ELSE [exc |-> "none", value |-> dst, fs |-> files \cup {<<dst, content>>}]

\* lines 96-116 returning False when sootdiff could not be run
run_sootdiff_false_on_error(answer) ==
    IF answer.kind = "raise"
    THEN [value |-> BoolValue(FALSE),
          log |-> << <<"exception", "error running sootdiff">> >>]
    ELSE [value |-> BoolValue(answer.returncode = 0),
          log |-> << <<"info", "sootdiff output">> >>]

\* lines 96-116 of compare_classfiles: run sootdiff with a timeout of 30 s
run_sootdiff(answer) ==
    IF answer.kind = "raise"
    THEN [value |-> NoneValue,
          log |-> << <<"exception", "error running sootdiff">> >>]
    ELSE [value |-> BoolValue(answer.returncode = 0),
          log |-> << <<"info", "sootdiff output">> >>]

\* line 92: the verdict on a pair of different packages, as None
pkg_mismatch_verdict_none == NoneValue

\* line 92: the verdict on a pair of different packages
pkg_mismatch_verdict == BoolValue(FALSE)

\* pair.expected.copy_basedir
CopyBasedir == <<"e", "v", "a", "l">>

CallResult(r, e, tr, lg, files) ==
    [ret |-> r, exc |-> e, trace |-> tr, log |-> lg, fs |-> files]

\* compare_classfiles(pair, eval_dir, merge_driver) on the staging tree
\* `files`; c holds the names of the pair, the content of the replayed file
\* and what each tool answers when it is run
compare_classfiles(files, c) ==
    IF c.expected_name # c.replayed_name
    THEN CallResult(NoValue, "ValueError", <<>>, <<>>, files)
    ELSE
      LET e == extract_java_package(c.pkgextractor_expected)
          t1 == <<"pkgextractor">>
          r == extract_java_package(c.pkgextractor_replayed)
          t2 == Append(t1, "pkgextractor")
          st == copy_to_pkg_dir(files, c.replayed_name, c.content, r.value,
                                <<CopyBasedir, c.merge_driver>>)
          t3 == Append(t2, "copy_to_pkg_dir")
          sd == run_sootdiff(c.sootdiff)
          t4 == Append(t3, "sootdiff")
      IN  IF e.exc # "none" THEN CallResult(NoValue, e.exc, t1, e.log, files)
          ELSE IF r.exc # "none"
          THEN CallResult(NoValue, r.exc, t2, e.log \o r.log, files)
          ELSE IF st.exc # "none"
          THEN CallResult(NoValue, st.exc, t3, e.log \o r.log, files)
          ELSE IF e.value # r.value
          THEN CallResult(pkg_mismatch_verdict, "none", t3, e.log \o r.log, st.fs)
          ELSE CallResult(sd.value, "none", t4, e.log \o r.log \o sd.log, st.fs)

(***************************************************************************)
(* What the calls can be made on.                                          *)
(***************************************************************************)
ClassSuffix == <<".", "c", "l", "a", "s", "s">>
FooClass == <<"F", "o", "o">> \o ClassSuffix
BarClass == <<"B", "a", "r">> \o ClassSuffix
ClassNames == {FooClass, BarClass}

PkgAB == <<"a", ".", "b">>
PkgC == <<"c">>
Packages == {PkgAB, PkgC}

MergeDrivers == {<<"s", "p", "o", "r", "k">>, <<"j", "d", "i", "m", "e">>}
Contents == {"v1", "v2"}

\* pkgextractor on a file declaring package pkg
PkgAnswers(pkg) ==
    {ToolExit(0, pkg \o <<"\n">>), ToolExit(1, <<"e", "r", "r", "\n">>), ToolRaise}
SootAnswers == {ToolExit(0, <<>>), ToolExit(1, <<>>), ToolRaise}

\* an answer is drawn for pkgextractor exactly when the call gets to run it,
\* and none for sootdiff when the call has raised before
Consistent(c) ==
    /\ c.pkgextractor_expected \in PkgAnswers(c.expected_pkg) \cup {NotRun}
    /\ c.pkgextractor_replayed \in PkgAnswers(c.replayed_pkg) \cup {NotRun}
    /\ IF c.expected_name # c.replayed_name
       THEN /\ c.pkgextractor_expected = NotRun
            /\ c.pkgextractor_replayed = NotRun
            /\ c.sootdiff = NotRun
       ELSE /\ c.pkgextractor_expected # NotRun
            /\ IF extract_java_package(c.pkgextractor_expected).exc # "none"
               THEN c.pkgextractor_replayed = NotRun /\ c.sootdiff = NotRun
               ELSE /\ c.pkgextractor_replayed # NotRun
                    /\ extract_java_package(c.pkgextractor_replayed).exc # "none"
                         => c.sootdiff = NotRun

CompareCalls ==
    {c \in [kind : {"compare_classfiles"},
            expected_name : {FooClass},
            replayed_name : ClassNames,
            expected_pkg : {PkgAB},
            replayed_pkg : Packages,
            content : Contents,
            merge_driver : MergeDrivers,
            pkgextractor_expected : UNION {PkgAnswers(q) : q \in Packages} \cup {NotRun},
            pkgextractor_replayed : UNION {PkgAnswers(q) : q \in Packages} \cup {NotRun},
            sootdiff : SootAnswers \cup {NotRun}] : Consistent(c)}

\* whether compare_classfiles on the staging tree `files` gets to run
\* sootdiff: whatever sootdiff answers, it is run or it is not
InvokesSootdiff(files, c) ==
    LET probe == compare_classfiles(files, [c EXCEPT !.sootdiff = ToolRaise])
    IN  \E i \in 1..Len(probe.trace) : probe.trace[i] = "sootdiff"

(***************************************************************************)
(* Specification of the classfile comparison: up to MaxCalls calls of      *)
(* compare_classfiles, copy_to_pkg_dir and extract_java_package, in any    *)
(* order, on one staging tree that starts empty.                           *)
(***************************************************************************)
InitClass ==
    /\ pc = "init"
    /\ lines = <<>>
    /\ conflicts = <<>>
    /\ Idle

CompareClassfiles ==
    \E c \in CompareCalls :
        LET r == compare_classfiles(fs, c)
        IN  /\ ncalls < MaxCalls
            /\ c.sootdiff # NotRun <=> InvokesSootdiff(fs, c)
            /\ pc' = "compare_classfiles"
            /\ call' = c
            /\ ret' = r.ret
            /\ exc' = r.exc
            /\ trace' = r.trace
            /\ log' = r.log
            /\ fs' = r.fs
            /\ ncalls' = ncalls + 1
            /\ UNCHANGED <<lines, conflicts, old_evaluations, new_evaluations,
                           exit_status>>

CopyToPkgDir ==
    \E name \in ClassNames, content \in Contents,
       pkg \in Packages \cup {<<>>}, driver \in MergeDrivers :
        LET r == copy_to_pkg_dir(fs, name, content, pkg, <<CopyBasedir, driver>>)
        IN  /\ ncalls < MaxCalls
            /\ pc' = "copy_to_pkg_dir"
            /\ call' = [kind |-> "copy_to_pkg_dir", name |-> name,
                        content |-> content, pkg |-> pkg, merge_driver |-> driver]
            /\ ret' = IF r.exc = "none" THEN [kind |-> "path", value |-> r.value]
                      ELSE NoValue
            /\ exc' = r.exc
            /\ trace' = <<>>
            /\ log' = <<>>
            /\ fs' = r.fs
            /\ ncalls' = ncalls + 1
            /\ UNCHANGED <<lines, conflicts, old_evaluations, new_evaluations,
                           exit_status>>

ExtractJavaPackage ==
    \E pkg \in Packages : \E answer \in PkgAnswers(pkg) :
        LET r == extract_java_package(answer)
        IN  /\ ncalls < MaxCalls
            /\ pc' = "extract_java_package"
            /\ call' = [kind |-> "extract_java_package", pkg |-> pkg,
                        pkgextractor |-> answer]
            /\ ret' = IF r.exc = "none" THEN StrValue(r.value) ELSE NoValue
            /\ exc' = r.exc
            /\ trace' = <<"pkgextractor">>
            /\ log' = r.log
            /\ ncalls' = ncalls + 1
            /\ UNCHANGED <<lines, conflicts, fs, old_evaluations, new_evaluations,
                           exit_status>>

NextClass == CompareClassfiles \/ CopyToPkgDir \/ ExtractJavaPackage

SpecClass == InitClass /\ [][NextClass]_vars

Invoked(tool) == \E i \in 1..Len(trace) : trace[i] = tool

ComparedClassfiles == pc = "compare_classfiles"

\* pkgextractor exited with status 0, or running it raised
Answered(answer) ==
    answer.kind = "raise" \/ (answer.kind = "exit" /\ answer.returncode = 0)

\* pkgextractor exited with a non-zero status
ExitedNonZero(answer) == answer.kind = "exit" /\ answer.returncode # 0

\* the package string a lookup yields for a file declaring pkg: the declared
\* package when pkgextractor exits with 0, the empty string when it raises
Looked(answer, pkg) == IF answer.kind = "exit" THEN pkg ELSE <<>>

C6_SootdiffVerdict ==
    (ComparedClassfiles /\ Invoked("sootdiff")) =>
        /\ exc = "none"
        /\ (ret.kind = "bool" /\ ret.value = TRUE) <=>
               (call.sootdiff.kind = "exit" /\ call.sootdiff.returncode = 0)
        /\ (ret.kind = "bool" /\ ret.value = FALSE) <=>
               (call.sootdiff.kind = "exit" /\ call.sootdiff.returncode # 0)
        /\ ret.kind = "None" <=> call.sootdiff.kind = "raise"

\* C6 witness: sootdiff was invoked and raised; the call returned None.
C6_Witness ==
    /\ ComparedClassfiles
    /\ Invoked("sootdiff")
    /\ call.sootdiff.kind = "raise"
    /\ exc = "none"
    /\ ret.kind = "None"

\* the staging destination of a call: basedir / tool label / package path /
\* class file name
Destination(driver, pkg, name) ==
    <<CopyBasedir, driver>> \o pkg_relpath(pkg) \o <<name>>

\* a step that stages content at dst raises when dst exists and leaves the
\* tree as it is, and otherwise adds the file
StagesOrRaises(dst, content) ==
    IF \E f \in fs : f[1] = dst
    THEN exc' = "FileExistsError" /\ fs' = fs
    ELSE exc' # "FileExistsError" /\ fs' = fs \cup {<<dst, content>>}

\* C7: over any sequence of compare_classfiles and copy_to_pkg_dir calls a
\* staged classfile is never overwritten: a call whose staging destination
\* already exists raises and leaves the staged file unchanged; calls for one
\* class and package under different tool labels stage to distinct paths, so
\* that both succeed.
C7_NeverOverwritten ==
    [][/\ \A f \in fs : f \in fs'
       /\ \A f \in fs' : \A g \in fs' : f[1] = g[1] => f = g
       /\ pc' = "copy_to_pkg_dir" =>
              StagesOrRaises(Destination(call'.merge_driver, call'.pkg, call'.name),
                             call'.content)
       /\ (/\ pc' = "compare_classfiles"
           /\ \E i \in 1..Len(trace') : trace'[i] = "copy_to_pkg_dir") =>
              StagesOrRaises(Destination(call'.merge_driver,
                                         Looked(call'.pkgextractor_replayed,
                                                call'.replayed_pkg),
                                         call'.replayed_name),
                             call'.content)
       /\ \A d1 \in MergeDrivers : \A d2 \in MergeDrivers \ {d1} :
              \A pkg \in Packages \cup {<<>>} : \A name \in ClassNames :
                  Destination(d1, pkg, name) # Destination(d2, pkg, name)
      ]_vars

\* C7 witness: compare_classfiles was called on a replayed unit whose staging
\* destination held a file of other content; it raised FileExistsError and
\* the staged file is as it was.
C7_Witness ==
    /\ ComparedClassfiles
    /\ exc = "FileExistsError"
    /\ \E f \in fs :
           /\ f[1] = Destination(call.merge_driver,
                                 Looked(call.pkgextractor_replayed, call.replayed_pkg),
                                 call.replayed_name)
           /\ f[2] # call.content

MaxFiles == 2

\* the code points of the characters of the paths, as str comparison uses them
ord == "$" :> 36 @@ "." :> 46 @@ "1" :> 49 @@ "2" :> 50 @@ "B" :> 66 @@ "F" :> 70
       @@ "a" :> 97 @@ "b" :> 98 @@ "c" :> 99 @@ "d" :> 100 @@ "i" :> 105 @@ "j" :> 106
       @@ "l" :> 108 @@ "m" :> 109 @@ "o" :> 111 @@ "r" :> 114 @@ "s" :> 115 @@ "u" :> 117 @@ "v" :> 118

RECURSIVE StrLess(_, _)
\* a < b for two str
StrLess(a, b) ==
    IF b = <<>> THEN FALSE
    ELSE IF a = <<>> THEN TRUE
    ELSE IF Head(a) # Head(b) THEN ord[Head(a)] < ord[Head(b)]
    ELSE StrLess(Tail(a), Tail(b))

RECURSIVE PathLess(_, _)
\* p < q for two paths: their parts are compared as lists of str
PathLess(p, q) ==
    IF q = <<>> THEN FALSE
    ELSE IF p = <<>> THEN TRUE
    ELSE IF Head(p) # Head(q) THEN StrLess(Head(p), Head(q))
    ELSE PathLess(Tail(p), Tail(q))

RECURSIVE insort(_, _)
\* the sorted list `sorted` with path p put in its place
insort(sorted, p) ==
    IF sorted = <<>> THEN <<p>>
    ELSE IF PathLess(p, Head(sorted)) THEN <<p>> \o sorted
    ELSE <<Head(sorted)>> \o insort(Tail(sorted), p)

RECURSIVE sorted_paths(_)
\* sorted(classfiles)
sorted_paths(ps) ==
    IF ps = <<>> THEN <<>> ELSE insort(sorted_paths(Tail(ps)), Head(ps))

\* path.name
path_name(path) == path[Len(path)]

\* the position of the last "." of a name that starts its suffix, or 0
suffix_at(name) ==
    LET dots == {i \in 2..Len(name) : name[i] = "."}
    IN  IF dots = {} \/ name[Len(name)] = "." THEN 0
        ELSE CHOOSE i \in dots : \A j \in dots : j <= i

\* path.stem
path_stem(path) ==
    LET name == path_name(path)
    IN  IF suffix_at(name) = 0 THEN name ELSE SubSeq(name, 1, suffix_at(name) - 1)

\* path.suffix
path_suffix(path) ==
    LET name == path_name(path)
    IN  IF suffix_at(name) = 0 THEN <<>> ELSE SubSeq(name, suffix_at(name), Len(name))

\* f'Compiled from "{src_name}"'
compiled_from_line(src_name) ==
    <<"C", "o", "m", "p", "i", "l", "e", "d", " ", "f", "r", "o", "m", " ", "\"">> \o src_name \o <<"\"">>

\* _from_source_name(classfile, src_name), answer being what running javap did
_from_source_name(answer, src_name) ==
    IF answer.kind = "raise"
    THEN [value |-> FALSE,
          log |-> << <<"exception", "error analyzing classfile source">> >>]
    ELSE [value |-> strip(split(answer.stdout, "\n")[1]) = compiled_from_line(src_name),
          log |-> <<>>]

RECURSIVE _closest_pomfile(_, _)
\* _closest_pomfile(path), poms being the directories that hold a pom.xml:
\* path.parents runs from the directory of path up to the root
_closest_pomfile(path, poms) ==
    IF path = <<>> THEN [exc |-> "ValueError", value |-> <<>>]
    ELSE LET parent == SubSeq(path, 1, Len(path) - 1)
         IN  IF parent \in poms
             THEN [exc |-> "none", value |-> Append(parent, <<"p", "o", "m", ".", "x", "m", "l">>)]
             ELSE _closest_pomfile(parent, poms)

\* line 161: file.stem == name or file.stem.startswith(sub_classfile_prefix)
stem_matches(file_path, name) ==
    \/ path_stem(file_path) = name
    \/ startswith(path_stem(file_path), Append(name, "$"))

LocateResult(r, e, tr, lg) == [ret |-> r, exc |-> e, trace |-> tr, log |-> lg]

RECURSIVE find_matches(_, _, _, _)
\* lines 158-163: the files of the tree, from the i-th on, whose stem fits
\* and which javap reports as compiled from src_name; javap is run on a file
\* only when its stem fits
find_matches(tree, i, src_path, acc) ==
    IF i > Len(tree) THEN acc
    ELSE IF ~stem_matches(tree[i].path, path_stem(src_path))
    THEN find_matches(tree, i + 1, src_path, acc)
    ELSE LET j == _from_source_name(tree[i].javap, path_name(src_path))
             seen == [acc EXCEPT !.trace = Append(@, "javap"), !.log = @ \o j.log]
         IN  find_matches(tree, i + 1, src_path,
                          IF j.value
                          THEN [seen EXCEPT !.matches = Append(@, tree[i])]
                          ELSE seen)

RECURSIVE filter_classfiles(_, _, _, _, _, _)
\* lines 166-171: the matches, from the i-th on, whose package is
\* expected_pkg and whose closest pom.xml is that of the source file
filter_classfiles(matches, i, expected_pkg, src_path, poms, acc) ==
    IF i > Len(matches) THEN acc
    ELSE
      LET p == extract_java_package(matches[i].pkgextractor)
          looked == [acc EXCEPT !.trace = Append(@, "pkgextractor"),
                                !.log = @ \o p.log]
          own == _closest_pomfile(matches[i].path, poms)
          of_src == _closest_pomfile(src_path, poms)
      IN  IF p.exc # "none" THEN [looked EXCEPT !.exc = p.exc]
          ELSE IF p.value # expected_pkg
          THEN filter_classfiles(matches, i + 1, expected_pkg, src_path, poms, looked)
          ELSE IF own.exc # "none" THEN [looked EXCEPT !.exc = own.exc]
          ELSE IF of_src.exc # "none" THEN [looked EXCEPT !.exc = of_src.exc]
          ELSE filter_classfiles(
                   matches, i + 1, expected_pkg, src_path, poms,
                   IF own.value = of_src.value
                   THEN [looked EXCEPT !.classfiles = Append(@, matches[i].path)]
                   ELSE looked)

\* lines 150-155 raising for a source file that is not on disk
on_missing_source_raises == LocateResult(NoValue, "FileNotFoundError", <<>>, <<>>)

\* lines 150-155: the source file is not on disk
on_missing_source ==
    LocateResult([kind |-> "list", value |-> <<>>], "none", <<>>,
                 << <<"warning", "src is not in basedir">> >>)

\* locate_classfiles(src, basedir): c holds the source file, the tree under
\* basedir, the directories with a pom.xml and what the tools answer
locate_classfiles(c) ==
    IF ~c.src.is_file THEN on_missing_source
    ELSE
      LET found == find_matches(c.tree, 1, c.src.path,
                                [matches |-> <<>>, trace |-> <<>>, log |-> <<>>])
          e == extract_java_package(c.src.pkgextractor)
          t1 == Append(found.trace, "pkgextractor")
          l1 == found.log \o e.log
          kept == filter_classfiles(found.matches, 1, e.value, c.src.path, c.poms,
                                    [exc |-> "none", classfiles |-> <<>>,
                                     trace |-> t1, log |-> l1])
          l2 == IF kept.classfiles = <<>>
                THEN Append(kept.log, <<"warning", "Found no classfiles">>)
                ELSE kept.log
      IN  IF e.exc # "none" THEN LocateResult(NoValue, e.exc, t1, l1)
          ELSE IF kept.exc # "none"
          THEN LocateResult(NoValue, kept.exc, kept.trace, kept.log)
          ELSE LocateResult([kind |-> "tuple",
                             classfiles |-> sorted_paths(kept.classfiles),
                             pkg |-> e.value],
                            "none", kept.trace, l2)

(***************************************************************************)
(* What locate_classfiles can be called on: the source file m1/src/Foo.java*)
(* of package a.b, and a tree of up to MaxFiles of these .class files.     *)
(***************************************************************************)
M1 == <<"m", "1">>
M2 == <<"m", "2">>
SrcDir == <<"s", "r", "c">>
FooJava == <<"F", "o", "o", ".", "j", "a", "v", "a">>
FooDollarJava == <<"F", "o", "o", "$", ".", "j", "a", "v", "a">>
FooBarJava == <<"F", "o", "o", "B", "a", "r", ".", "j", "a", "v", "a">>
FooInnerClass == <<"F", "o", "o", "$", "1">> \o ClassSuffix
FooDollarClass == <<"F", "o", "o", "$">> \o ClassSuffix
FooBarClass == <<"F", "o", "o", "B", "a", "r">> \o ClassSuffix

ClassFile(path, pkg, compiled_from) ==
    [path |-> path, pkg |-> pkg, compiled_from |-> compiled_from]

ClassUniverse ==
    {ClassFile(<<M1, FooClass>>, PkgAB, FooJava),
     ClassFile(<<M1, FooInnerClass>>, PkgAB, FooJava),
     ClassFile(<<M2, FooClass>>, PkgAB, FooJava),
     ClassFile(<<M1, PkgC, FooClass>>, PkgC, FooJava),
     ClassFile(<<M1, FooDollarClass>>, PkgAB, FooDollarJava),
     ClassFile(<<M1, FooBarClass>>, PkgAB, FooBarJava)}

\* javap on a class file: its first line names the source file, or running
\* it raised (a timeout, a missing executable)
JavapAnswers(f) ==
    {ToolExit(0, compiled_from_line(f.compiled_from) \o <<"\n", "}", "\n">>),
     ToolRaise}

\* a class file of the tree together with what the tools answer on it
TreeFiles ==
    UNION {{[path |-> f.path, pkg |-> f.pkg, compiled_from |-> f.compiled_from,
             javap |-> j, pkgextractor |-> p] :
                j \in JavapAnswers(f), p \in PkgAnswers(f.pkg)} : f \in ClassUniverse}

Trees ==
    UNION {{t \in [1..n -> TreeFiles] :
                \A i \in 1..n : \A j \in 1..n : t[i].path = t[j].path => i = j} :
           n \in 0..MaxFiles}

SrcPath == <<M1, SrcDir, FooJava>>

PomSets == {{<<M1>>, <<M2>>}, {<<M1>>}, {<<>>}, {}}

LocateCalls ==
    [kind : {"locate_classfiles"},
     src : [path : {SrcPath}, is_file : BOOLEAN, pkg : {PkgAB},
            pkgextractor : PkgAnswers(PkgAB)],
     tree : Trees,
     poms : PomSets]

(***************************************************************************)
(* Specification of the classfile lookup: a source file and a tree are     *)
(* drawn, then locate_classfiles is called on them.  It keeps no state     *)
(* between calls.                                                          *)
(***************************************************************************)
InitLocate ==
    /\ pc = "init"
    /\ lines = <<>>
    /\ conflicts = <<>>
    /\ call \in LocateCalls
    /\ ret = NoValue
    /\ exc = "none"
    /\ trace = <<>>
    /\ log = <<>>
    /\ fs = {}
    /\ old_evaluations = {}
    /\ new_evaluations = {}
    /\ exit_status = -1
    /\ ncalls = 0

LocateClassfiles ==
    LET r == locate_classfiles(call)
    IN  /\ pc = "init"
        /\ call.kind = "locate_classfiles"
        /\ pc' = "locate_classfiles"
        /\ ret' = r.ret
        /\ exc' = r.exc
        /\ trace' = r.trace
        /\ log' = r.log
        /\ UNCHANGED <<lines, conflicts, call, fs, old_evaluations,
                       new_evaluations, exit_status, ncalls>>

NextLocate == LocateClassfiles

SpecLocate == InitLocate /\ [][NextLocate]_vars

Located == pc = "locate_classfiles"

Warned == \E i \in 1..Len(log) : log[i][1] = "warning"

\* the pom.xml directory closest above a path, as a set: empty when no
\* directory above the path holds a pom.xml
ClosestPom(path, poms) ==
    LET above == {n \in 0..(Len(path) - 1) : SubSeq(path, 1, n) \in poms}
    IN  {SubSeq(path, 1, n) : n \in {h \in above : \A g \in above : g <= h}}

\* the base name of a class file is the stem of the source file, or starts
\* with the stem followed by "$"
StemFits(f, src) ==
    LET base == SubSeq(path_name(f.path), 1, Len(path_name(f.path)) - Len(ClassSuffix))
        stem == SubSeq(path_name(src.path), 1, Len(path_name(src.path)) - 5)
    IN  base = stem \/ (Len(base) > Len(stem) /\ SubSeq(base, 1, Len(stem) + 1) = stem \o <<"$">>)

\* javap answered, and the class file was compiled from a file of the name
\* of the source file
NamesSource(f, src) ==
    f.javap.kind = "exit" /\ f.compiled_from = path_name(src.path)

\* the class file and the source file lie under the same closest pom.xml
SameModule(f, src, poms) ==
    /\ ClosestPom(f.path, poms) # {}
    /\ ClosestPom(f.path, poms) = ClosestPom(src.path, poms)

\* the four filters on the facts of the files: the packages are the ones the
\* files declare
OriginatesFrom(f, c) ==
    /\ StemFits(f, c.src)
    /\ NamesSource(f, c.src)
    /\ f.pkg = c.src.pkg
    /\ SameModule(f, c.src, c.poms)

\* the four filters as the lookups report them: the packages are the strings
\* the lookups return, the empty string for a lookup that raised
PassesFilters(f, c) ==
    /\ StemFits(f, c.src)
    /\ NamesSource(f, c.src)
    /\ Answered(f.pkgextractor)
    /\ Answered(c.src.pkgextractor)
    /\ Looked(f.pkgextractor, f.pkg) = Looked(c.src.pkgextractor, c.src.pkg)
    /\ SameModule(f, c.src, c.poms)

NoneSurvives(c) == \A i \in 1..Len(c.tree) : ~PassesFilters(c.tree[i], c)

\* no package lookup exits non-zero, and the source file and every class
\* file lie under a pom.xml
FilteringCompletes(c) ==
    /\ ~ExitedNonZero(c.src.pkgextractor)
    /\ ClosestPom(c.src.path, c.poms) # {}
    /\ \A i \in 1..Len(c.tree) :
          /\ ~ExitedNonZero(c.tree[i].pkgextractor)
          /\ ClosestPom(c.tree[i].path, c.poms) # {}

C15_ReturnedUnitsPassAllFilters ==
    (Located /\ exc = "none" /\ ret.kind = "tuple") =>
        /\ \A k \in 1..Len(ret.classfiles) :
               \E i \in 1..Len(call.tree) :
                   /\ call.tree[i].path = ret.classfiles[k]
                   /\ OriginatesFrom(call.tree[i], call)
        /\ \A k \in 1..(Len(ret.classfiles) - 1) :
               PathLess(ret.classfiles[k], ret.classfiles[k + 1])
        /\ ret.classfiles # <<>> => ret.pkg = call.src.pkg

(***************************************************************************)
(* javautils.py: remove_duplicate_checkcasts, generate_classfile_pairs and *)
(* compare_compiled_bytecode.  compare_compiled_bytecode is a generator:   *)
(* its body runs as its consumer asks for the next item, one pair at a     *)
(* time, and an exception raised for a pair ends the iteration.            *)
(***************************************************************************)
MaxPairs == 2

\* the content of a class file after duplicate-checkcast-remover rewrote it
Canonical == [content \in Contents |-> IF content = "v1" THEN "v1-canonical"
                                                          ELSE "v2-canonical"]

\* remove_duplicate_checkcasts(path), answer being what running
\* duplicate-checkcast-remover (timeout 60 s, no handler) did
remove_duplicate_checkcasts(path, answer) ==
    IF path_suffix(path) # ClassSuffix THEN [exc |-> "ValueError", trace |-> <<>>]
    ELSE IF answer.kind = "raise"
    THEN [exc |-> "TimeoutExpired", trace |-> <<"duplicate-checkcast-remover">>]
    ELSE IF answer.returncode # 0
    THEN [exc |-> "RuntimeError", trace |-> <<"duplicate-checkcast-remover">>]
    ELSE [exc |-> "none", trace |-> <<"duplicate-checkcast-remover">>]

\* conts.ExpectedClassfile: the name of the stored copy, the path of the
\* original relative to the build output, and the package the copy declares
ExpectedClassfile(copy_name, original_relpath, pkg) ==
    [copy_name |-> copy_name, original_relpath |-> original_relpath, pkg |-> pkg]

\* conts.ClassfilePair(expected, replayed)
ClassfilePair(expected, replayed) == [expected |-> expected, replayed |-> replayed]

\* replayed_compile_basedir
ReplayedBasedir == <<"r", "e", "p", "l", "a", "y">>

\* generate_classfile_pairs(expected_classfiles, replayed_basedir)
generate_classfile_pairs(expected_classfiles, replayed_basedir) ==
    [k \in 1..Len(expected_classfiles) |->
        ClassfilePair(expected_classfiles[k],
                      <<replayed_basedir>> \o expected_classfiles[k].original_relpath)]

\* what one turn of the loop does: the item it yields, or the exception that
\* ends the iteration
PairResult(yields, equal, e, tr, lg, files) ==
    [yields |-> yields, equal |-> equal, exc |-> e, trace |-> tr, log |-> lg,
     fs |-> files]

\* lines 39-43 ending the iteration at a replayed class file that is missing
on_missing_replayed_stops(files) ==
    PairResult(FALSE, NoValue, "FileNotFoundError", <<>>, <<>>, files)

\* lines 39-43: the replayed class file is not in the replayed build output
on_missing_replayed(files) ==
    PairResult(TRUE, BoolValue(FALSE), "none", <<>>,
               << <<"warning", "No replayed classfile">> >>, files)

\* the arguments and environment of compare_classfiles for a pair whose
\* replayed file, as it is on disk now, holds `content`
CompareCall(pair, env, content, merge_driver) ==
    [kind |-> "compare_classfiles",
     expected_name |-> pair.expected.copy_name,
     replayed_name |-> path_name(pair.replayed),
     expected_pkg |-> pair.expected.pkg,
     replayed_pkg |-> env.pkg,
     content |-> content,
     merge_driver |-> merge_driver,
     pkgextractor_expected |-> env.pkgextractor_expected,
     pkgextractor_replayed |-> env.pkgextractor_replayed,
     sootdiff |-> env.sootdiff]

\* the body of the loop checking the names of the pair before anything is
\* run on its replayed file
loop_body_names_first(files, pair, env, merge_driver) ==
    IF ~env.is_file THEN on_missing_replayed(files)
    ELSE IF pair.expected.copy_name # path_name(pair.replayed)
    THEN PairResult(FALSE, NoValue, "ValueError", <<>>, <<>>, files)
    ELSE
      LET rm == remove_duplicate_checkcasts(pair.replayed, env.checkcast_remover)
          cmp == compare_classfiles(
                     files, CompareCall(pair, env, Canonical[env.content], merge_driver))
      IN  IF rm.exc # "none"
          THEN PairResult(FALSE, NoValue, rm.exc, rm.trace, <<>>, files)
          ELSE IF cmp.exc # "none"
          THEN PairResult(FALSE, NoValue, cmp.exc, rm.trace \o cmp.trace, cmp.log, cmp.fs)
          ELSE PairResult(TRUE, cmp.ret, "none", rm.trace \o cmp.trace, cmp.log, cmp.fs)

\* lines 39-55: the body of the loop of compare_compiled_bytecode for one
\* pair, on the staging tree `files`; env is what the pair meets on disk and
\* what the tools answer
loop_body(files, pair, env, merge_driver) ==
    IF ~env.is_file THEN on_missing_replayed(files)
    ELSE
      LET rm == remove_duplicate_checkcasts(pair.replayed, env.checkcast_remover)
          cmp == compare_classfiles(
                     files, CompareCall(pair, env, Canonical[env.content], merge_driver))
          l1 == << <<"info", "Removing duplicate checkcasts">> >>
          l2 == l1 \o << <<"info", "Comparing revisions">> >> \o cmp.log
      IN  IF rm.exc # "none"
          THEN PairResult(FALSE, NoValue, rm.exc, rm.trace, l1, files)
          ELSE IF cmp.exc # "none"
          THEN PairResult(FALSE, NoValue, cmp.exc, rm.trace \o cmp.trace, l2, cmp.fs)
          ELSE PairResult(TRUE, cmp.ret, "none", rm.trace \o cmp.trace,
                          Append(l2, <<"info", "equal or not equal">>), cmp.fs)

(***************************************************************************)
(* What compare_compiled_bytecode can be called on: a list of up to        *)
(* MaxPairs expected class files, and for each what its pair meets.  An    *)
(* answer is drawn for a tool exactly when the loop gets to run it; the    *)
(* lookup of the package of the stored expected copy succeeds.             *)
(***************************************************************************)
ExpectedClassfiles ==
    {ExpectedClassfile(FooClass, <<M1, FooClass>>, PkgAB),
     ExpectedClassfile(FooBarClass, <<M1, FooBarClass>>, PkgAB),
     ExpectedClassfile(FooClass, <<M1, FooInnerClass>>, PkgAB)}

CheckcastAnswers == {ToolExit(0, <<>>), ToolExit(1, <<>>), ToolRaise}

NothingRun(env) ==
    /\ env.pkgextractor_expected = NotRun
    /\ env.pkgextractor_replayed = NotRun
    /\ env.sootdiff = NotRun

\* the package of a replayed file matters once it is looked up
ConsistentPair(x, env) ==
    IF ~env.is_file
    THEN env.pkg = x.pkg /\ env.checkcast_remover = NotRun /\ NothingRun(env)
    ELSE
      /\ env.checkcast_remover # NotRun
      /\ IF \/ env.checkcast_remover.kind = "raise"
            \/ ExitedNonZero(env.checkcast_remover)
            \/ x.copy_name # path_name(x.original_relpath)
         THEN env.pkg = x.pkg /\ NothingRun(env)
         ELSE /\ env.pkgextractor_expected = ToolExit(0, x.pkg \o <<"\n">>)
              /\ env.pkgextractor_replayed \in PkgAnswers(env.pkg)
              /\ IF ExitedNonZero(env.pkgextractor_replayed)
                 THEN env.sootdiff = NotRun
                 ELSE env.sootdiff # NotRun <=>
                          Looked(env.pkgextractor_expected, x.pkg)
                            = Looked(env.pkgextractor_replayed, env.pkg)

PairEnvs(x) ==
    {env \in [is_file : BOOLEAN,
              pkg : Packages,
              content : {"v1"},
              checkcast_remover : CheckcastAnswers \cup {NotRun},
              pkgextractor_expected : PkgAnswers(x.pkg) \cup {NotRun},
              pkgextractor_replayed : UNION {PkgAnswers(q) : q \in Packages} \cup {NotRun},
              sootdiff : SootAnswers \cup {NotRun}] : ConsistentPair(x, env)}

PairsMet == UNION {{<<x, env>> : env \in PairEnvs(x)} : x \in ExpectedClassfiles}

BytecodeCalls ==
    UNION {{[kind |-> "compare_compiled_bytecode",
             expected_classfiles |-> [k \in 1..n |-> met[k][1]],
             env |-> [k \in 1..n |-> met[k][2]],
             merge_driver |-> <<"s", "p", "o", "r", "k">>] :
                met \in [1..n -> PairsMet]} : n \in 0..MaxPairs}

(***************************************************************************)
(* Specification of the bytecode comparison: a call is drawn, then its     *)
(* consumer takes the items of the generator one by one, on one staging    *)
(* tree that starts empty.                                                 *)
(***************************************************************************)
InitBytecode ==
    /\ pc = "init"
    /\ lines = <<>>
    /\ conflicts = <<>>
    /\ call \in BytecodeCalls
    /\ ret = [kind |-> "iterator", yielded |-> <<>>]
    /\ exc = "none"
    /\ trace = <<>>
    /\ log = <<>>
    /\ fs = {}
    /\ old_evaluations = {}
    /\ new_evaluations = {}
    /\ exit_status = -1
    /\ ncalls = 0

Iterating ==
    /\ call.kind = "compare_compiled_bytecode"
    /\ pc \in {"init", "compare_compiled_bytecode"}

\* the loop takes the next pair: it yields an item or raises
NextPair ==
    /\ Iterating
    /\ ncalls < Len(call.expected_classfiles)
    /\ LET k == ncalls + 1
           pairs == generate_classfile_pairs(call.expected_classfiles, ReplayedBasedir)
           r == loop_body(fs, pairs[k], call.env[k], call.merge_driver)
       IN  /\ pc' = IF r.yields THEN "compare_compiled_bytecode" ELSE "raised"
           /\ ret' = IF r.yields
                     THEN [ret EXCEPT !.yielded = Append(@, <<pairs[k], r.equal>>)]
                     ELSE ret
           /\ exc' = r.exc
           /\ trace' = r.trace
           /\ log' = r.log
           /\ fs' = r.fs
           /\ ncalls' = k
    /\ UNCHANGED <<lines, conflicts, call, old_evaluations, new_evaluations,
                   exit_status>>

\* the list is exhausted: the generator returns
StopIteration ==
    /\ Iterating
    /\ ncalls = Len(call.expected_classfiles)
    /\ pc' = "exhausted"
    /\ UNCHANGED <<lines, conflicts, call, ret, exc, trace, log, fs,
                   old_evaluations, new_evaluations, exit_status, ncalls>>

NextBytecode == NextPair \/ StopIteration

SpecBytecode == InitBytecode /\ [][NextBytecode]_vars

\* the pair the loop took last, what it met, and the verdict yielded for it
LastExpected == call.expected_classfiles[ncalls]
LastEnv == call.env[ncalls]
LastVerdict == ret.yielded[ncalls][2]
NamesDiffer(x) == x.copy_name # x.original_relpath[Len(x.original_relpath)]
Canonicalized(env) ==
    env.checkcast_remover.kind = "exit" /\ env.checkcast_remover.returncode = 0

\* the tools and steps of one pair, in the order the code runs them
FullOrder ==
    <<"duplicate-checkcast-remover", "pkgextractor", "pkgextractor",
      "copy_to_pkg_dir", "sootdiff">>

\* the pair taken last was found to be of two packages: both lookups
\* returned, and the strings they returned differ
FoundOfTwoPackages(x, env) ==
    /\ env.is_file
    /\ Canonicalized(env)
    /\ ~NamesDiffer(x)
    /\ Answered(env.pkgextractor_expected)
    /\ Answered(env.pkgextractor_replayed)
    /\ Looked(env.pkgextractor_expected, x.pkg)
         # Looked(env.pkgextractor_replayed, env.pkg)

\* C12 (as stated): for every classfile pair the steps are performed in the
\* order (1) base-name check before any other action, (2) staging of the
\* replayed unit, (3) package-difference short-circuit, (4) canonicalization
\* of the replayed unit, (5) equivalence utility; canonicalization is never
\* run for a pair that fails the base-name check or that is short-circuited
\* because its packages differ.
C12_StatedOrder ==
    ncalls >= 1 =>
        /\ NamesDiffer(LastExpected) => ~Invoked("duplicate-checkcast-remover")
        /\ FoundOfTwoPackages(LastExpected, LastEnv) =>
               ~Invoked("duplicate-checkcast-remover")
        /\ \A i \in 1..Len(trace) : \A j \in 1..Len(trace) :
               /\ (trace[i] = "copy_to_pkg_dir"
                   /\ trace[j] = "duplicate-checkcast-remover") => i < j
               /\ (trace[i] = "duplicate-checkcast-remover"
                   /\ trace[j] = "sootdiff") => i < j

\* C12 (as amended): for every classfile pair whose replayed file exists the
\* steps are performed in the order (1) canonicalization of the replayed
\* unit, whose failure ends the pair, (2) the base-name check, (3) the two
\* package lookups, (4) staging of the replayed unit, (5) the
\* package-difference short-circuit to False, (6) the equivalence utility.
\* Canonicalization is run before the base-name check and also for a pair
\* that is short-circuited because its packages differ.
C12_CanonicalizationFirst ==
    ncalls >= 1 =>
        /\ trace = SubSeq(FullOrder, 1, Len(trace))
        /\ LastEnv.is_file <=> Invoked("duplicate-checkcast-remover")
        /\ (LastEnv.is_file /\ ~Canonicalized(LastEnv)) =>
               /\ exc \in {"RuntimeError", "TimeoutExpired"}
               /\ Len(trace) = 1
        /\ (LastEnv.is_file /\ Canonicalized(LastEnv) /\ NamesDiffer(LastExpected)) =>
               /\ exc = "ValueError"
               /\ Len(trace) = 1
        /\ FoundOfTwoPackages(LastExpected, LastEnv) =>
               /\ Len(trace) = 4
               /\ exc \in {"none", "FileExistsError"}
               /\ exc = "none" => LastVerdict = BoolValue(FALSE)
        /\ Invoked("sootdiff") =>
               /\ Len(trace) = 5
               /\ exc = "none"
               /\ LastVerdict.kind \in {"bool", "None"}

\* C12 witness: a pair of one base name and two packages was taken: its
\* replayed file was canonicalized, looked up and staged, and the verdict
\* False was yielded without the equivalence utility.
C12_Witness ==
    /\ ncalls >= 1
    /\ FoundOfTwoPackages(LastExpected, LastEnv)
    /\ LastExpected.pkg # LastEnv.pkg
    /\ exc = "none"
    /\ trace = SubSeq(FullOrder, 1, 4)
    /\ LastVerdict = BoolValue(FALSE)
    /\ fs # {}

Tools ==
    {"git diff", "gumtree diff", "spork compare", "sootdiff", "javap",
     "duplicate-checkcast-remover", "pkgextractor"}

\* the timeout argument of the call site of each tool, in seconds: <<>> for
\* a call without the argument
timeout_of ==
    [tool \in Tools |->
        CASE tool = "git diff" -> <<>>
          [] tool = "gumtree diff" -> <<>>
          [] tool = "spork compare" -> <<>>
          [] tool = "sootdiff" -> <<30>>
          [] tool = "javap" -> <<5>>
          [] tool = "duplicate-checkcast-remover" -> <<60>>
          [] tool = "pkgextractor" -> <<60>>]

\* the call sites inside a try with a bare except: the function goes on
\* with a default value when subprocess.run raises
Guarded == {"sootdiff", "javap", "pkgextractor"}

\* the call sites followed by a check of the exit status that raises
\* RuntimeError
RaisesOnNonZero == {"gumtree diff", "duplicate-checkcast-remover", "pkgextractor"}

\* what a tool does once started
Behaviours == {"exits 0", "exits 1", "never returns"}

\* the tools an operation runs, in order
Operation(name, plan) == [kind |-> "operation", name |-> name, plan |-> plan]

Operations ==
    {Operation("evaluation_result",
               <<"git diff", "git diff", "gumtree diff", "gumtree diff">>),
     Operation("evaluation_result", <<>>),
     Operation("normalized_comparison", <<"spork compare">>),
     Operation("compare_compiled_bytecode",
               <<"duplicate-checkcast-remover", "pkgextractor", "pkgextractor",
                 "sootdiff">>),
     Operation("compare_compiled_bytecode",
               <<"duplicate-checkcast-remover", "pkgextractor", "pkgextractor">>),
     Operation("compare_compiled_bytecode", <<>>),
     Operation("locate_classfiles", <<"javap", "pkgextractor", "pkgextractor">>)}

InitBlocking ==
    /\ pc = "init"
    /\ lines = <<>>
    /\ conflicts = <<>>
    /\ Idle

\* the operation is called
Begin ==
    \E op \in Operations :
        /\ pc = "init"
        /\ pc' = "running"
        /\ call' = op
        /\ UNCHANGED <<lines, conflicts, ret, exc, trace, log, fs,
                       old_evaluations, new_evaluations, exit_status, ncalls>>

\* subprocess.run starts the next tool of the operation and waits for it
SubprocessRun ==
    \E does \in Behaviours :
        /\ pc = "running"
        /\ Len(trace) < Len(call.plan)
        /\ pc' = "waiting"
        /\ trace' = Append(trace, [tool |-> call.plan[Len(trace) + 1], does |-> does])
        /\ UNCHANGED <<lines, conflicts, call, ret, exc, log, fs,
                       old_evaluations, new_evaluations, exit_status, ncalls>>

Running == trace[Len(trace)]

\* the tool exits: subprocess.run returns, and the exit status is checked
ProcessExits ==
    /\ pc = "waiting"
    /\ Running.does # "never returns"
    /\ IF Running.tool \in RaisesOnNonZero /\ Running.does # "exits 0"
       THEN pc' = "raised" /\ exc' = "RuntimeError"
       ELSE pc' = "running" /\ exc' = exc
    /\ UNCHANGED <<lines, conflicts, call, ret, trace, log, fs,
                   old_evaluations, new_evaluations, exit_status, ncalls>>

\* the time of a call with a timeout is up: the tool is killed and
\* subprocess.run raises TimeoutExpired, into the handler if there is one
TimeoutExpires ==
    /\ pc = "waiting"
    /\ Running.does = "never returns"
    /\ timeout_of[Running.tool] # <<>>
    /\ IF Running.tool \in Guarded
       THEN pc' = "running" /\ exc' = exc
       ELSE pc' = "raised" /\ exc' = "TimeoutExpired"
    /\ UNCHANGED <<lines, conflicts, call, ret, trace, log, fs,
                   old_evaluations, new_evaluations, exit_status, ncalls>>

\* the operation has run its tools and returns
Return ==
    /\ pc = "running"
    /\ Len(trace) = Len(call.plan)
    /\ pc' = "returned"
    /\ UNCHANGED <<lines, conflicts, call, ret, exc, trace, log, fs,
                   old_evaluations, new_evaluations, exit_status, ncalls>>

NextBlocking == Begin \/ SubprocessRun \/ ProcessExits \/ TimeoutExpires \/ Return

\* the interpreter keeps running: a step that can be taken is taken
SpecBlocking == InitBlocking /\ [][NextBlocking]_vars /\ WF_vars(NextBlocking)

Busy == pc \in {"running", "waiting"}
Finished == pc \in {"returned", "raised"}

\* C17: every external tool invocation made by the evaluation engine is
\* bounded by an explicit timeout, so that a tool that never returns cannot
\* block evaluation_result or compare_compiled_bytecode forever: every
\* evaluation eventually returns a result or raises.
C17_NoToolBlocksForever ==
    (Busy /\ call.name \in {"evaluation_result", "compare_compiled_bytecode"})
        ~> Finished

====
